---- MODULE Spec2Model ----
(***************************************************************************)
(* ProcessWatch: a terminal dashboard (cui_main.py) that supervises child  *)
(* processes through SafetyProcessCall / ProcessListener                   *)
(* (process_attach.py).                                                    *)
(*                                                                         *)
(* One registry entry (cui_main.Process) owns at most one SafetyProcessCall*)
(* handle.  A handle owns one helper process (multiprocessing.Process      *)
(* running ProcessListener.process_entry); the helper owns the child       *)
(* (Popen), a listener thread per stream and the poll loop that forwards   *)
(* the listener's buffer into a queue the controller drains on refresh.    *)
(*                                                                         *)
(* Modelling decisions                                                     *)
(*  - Process.start forks the helper, whose first statements construct the *)
(*    ProcessListener and Popen the child (process_attach.py 79-80); fork  *)
(*    and Popen are one step of the model (ProcStart).                     *)
(*  - The controller is sequential.  It blocks only in                     *)
(*    SafetyProcessCall.kill (proc.join()); pc = "join" is that point, and *)
(*    op remembers the handler that is suspended there.                    *)
(*  - Output lines are opaque, non-blank tokens 1, 2, ... in emission      *)
(*    order; stdout is modelled, stderr is handled by identical code.      *)
(*  - PollLimit stands for the literal 1000 of range(1000), QueueCap for   *)
(*    the capacity of the pipe under a multiprocessing.Queue.               *)
(***************************************************************************)
EXTENDS Integers, Sequences, FiniteSets

\* ---------------------------------------------------------------- bounds
\* largest registry the model builds
MaxCount == 2
\* lines the children write at most, all incarnations together
MaxLines == 2
\* children spawned after construction (restart, add) at most
MaxSpawns == 2
\* lines the pipe of a multiprocessing.Queue holds before its writer blocks
\* (the operating system's pipe capacity, in lines)
QueueCap == 1
\* iterations of the helper's poll loop the model follows; the program's
\* loop is range(1000) (process_attach.py 81) and behaves alike at its end
PollLimit == 2

VARIABLES
    process_list,   \* ProcessTable.process_list: sequence of Process records
    pc,             \* where the controller is: "loop", "join", "done", "crashed"
    op,             \* the handler suspended in join: [kind, k, ctx]
    last_message,   \* Application.last_message
    spawns,         \* children spawned after construction
    written,        \* lines written by all children so far
    config,         \* the text of the config file that save writes and load reads
    pump            \* one ProcessListener followed statement by statement

vars == <<process_list, pc, op, last_message, spawns, written, config, pump>>

NoOp == [kind |-> "none", k |-> 0, ctx |-> "cmd"]

\* ------------------------------------------- process_attach.ProcessListener
\* A ProcessListener right after start() (lines 20-31), as process_entry
\* holds it at line 81, with the queues it was given:
\*   process      : self.process is "set" (the Popen object) or "none"
\*   child        : the Popen'd program, "alive" or "exited"
\*   sent, stream : lines the child wrote; those not yet read from its pipe
\*   lock         : holder of self.lock: "free", "listener", "poll"
\*   lpc          : _listen_stdout is about to: "readline" (55), "lock" (56),
\*                  "load" and "store" (the two halves of += in 57),
\*                  "release" (58); "dead": ended by an exception
\*   line, tmp    : its local `line`; the new value += is about to store
\*   stdoutString : the buffer
\*   appended     : every line the listener stored, in order (history)
\*   ppc          : process_entry is about to: "lock" (83), "test" (84),
\*                  "put" (85), "clear" (86), "release" (90), "qkill" (93),
\*                  "alive" (97-99), "kill" (100); "returned"
\*   iter         : completed iterations of range(1000)
\*   qstdout      : every chunk put on the queue, in order
\*   qkill        : the kill queue holds a message
NewPump ==
    [process |-> "set", child |-> "alive", sent |-> 0, stream |-> <<>>,
     lock |-> "free", lpc |-> "readline", line |-> <<>>, tmp |-> <<>>,
     stdoutString |-> <<>>, appended |-> <<>>,
     ppc |-> "lock", iter |-> 0, qstdout |-> <<>>, qkill |-> FALSE]

\* ------------------------------------------------------------- strings
\* A Python str is a sequence of characters, a character a string of
\* length one; the characters the model uses:
\*   "x" "y" "z" "s"  letters of names and program names
\*   " " and NL       whitespace
\*   "'" "[" "]" ","  what repr() of a list adds
\*   ":"              of the delimiter
\*   "0" .. "9" "."   of a delay
NL == "\n"

Whitespace == {" ", NL}

\* str.find: the first position at which d occurs in s, 0 for none.
FirstAt(s, d) ==
    LET at == {i \in 1 .. (Len(s) - Len(d) + 1) : SubSeq(s, i, i + Len(d) - 1) = d} IN
    IF at = {} THEN 0 ELSE CHOOSE i \in at : \A j \in at : i <= j

\* str.split(d)
RECURSIVE Split(_, _)
Split(s, d) ==
    LET i == FirstAt(s, d) IN
    IF i = 0 THEN <<s>>
    ELSE <<SubSeq(s, 1, i - 1)>> \o Split(SubSeq(s, i + Len(d), Len(s)), d)

RECURSIVE LStrip(_)
LStrip(s) == IF s # <<>> /\ Head(s) \in Whitespace THEN LStrip(Tail(s)) ELSE s

RECURSIVE RStrip(_)
RStrip(s) ==
    IF s # <<>> /\ s[Len(s)] \in Whitespace THEN RStrip(SubSeq(s, 1, Len(s) - 1)) ELSE s

\* str.strip()
Strip(s) == RStrip(LStrip(s))

\* sep.join(l)
RECURSIVE Join(_, _)
Join(l, sep) ==
    IF l = <<>> THEN <<>>
    ELSE IF Len(l) = 1 THEN l[1]
    ELSE l[1] \o sep \o Join(Tail(l), sep)

\* str(l) of a list of strings without quotes or backslashes: ['x', 'y']
ListRepr(l) ==
    <<"[">> \o Join([j \in 1 .. Len(l) |-> <<"'">> \o l[j] \o <<"'">>], <<",", " ">>)
           \o <<"]">>

\* shlex.split(s) over these characters: whitespace separates tokens, a
\* single quote opens and closes a literal stretch and is dropped; ok is
\* FALSE for ValueError("No closing quotation").
RECURSIVE Lex(_, _, _, _, _)
Lex(s, cur, inword, inquote, out) ==
    IF s = <<>> THEN
        IF inquote THEN [ok |-> FALSE, toks |-> <<>>]
        ELSE [ok |-> TRUE, toks |-> IF inword THEN Append(out, cur) ELSE out]
    ELSE LET c == Head(s) IN
        IF inquote THEN
            IF c = "'" THEN Lex(Tail(s), cur, TRUE, FALSE, out)
            ELSE Lex(Tail(s), Append(cur, c), TRUE, TRUE, out)
        ELSE IF c = "'" THEN Lex(Tail(s), cur, TRUE, TRUE, out)
        ELSE IF c \in Whitespace THEN
            Lex(Tail(s), <<>>, FALSE, FALSE, IF inword THEN Append(out, cur) ELSE out)
        ELSE Lex(Tail(s), Append(cur, c), TRUE, FALSE, out)

ShlexSplit(s) == Lex(s, <<>>, FALSE, FALSE, <<>>)

DigitChars == <<"0", "1", "2", "3", "4", "5", "6", "7", "8", "9">>

IsDigit(c) == \E i \in 1 .. 10 : DigitChars[i] = c

DigitVal(c) == (CHOOSE i \in 1 .. 10 : DigitChars[i] = c) - 1

\* A float is modelled by its number of tenths, 0.0 .. 9.9.
\* str(f): "0.0", "0.5", ...
FloatRepr(f) == <<DigitChars[(f \div 10) + 1], ".", DigitChars[(f % 10) + 1]>>

\* float(s) for texts of the forms d and d.d; -1 stands for ValueError.
ParseFloat(s) ==
    IF Len(s) = 1 /\ IsDigit(s[1]) THEN 10 * DigitVal(s[1])
    ELSE IF Len(s) = 3 /\ IsDigit(s[1]) /\ s[2] = "." /\ IsDigit(s[3])
         THEN 10 * DigitVal(s[1]) + DigitVal(s[3])
    ELSE 0 - 1

\* A commands value is a str or a list of str; a delay a float or a str.
StrValue(s) == [kind |-> "str", v |-> s]
ListValue(l) == [kind |-> "list", v |-> l]
FloatValue(f) == [kind |-> "float", v |-> f]

\* str(value) as the f-string of save_config formats it (line 90)
Str(value) ==
    IF value.kind = "str" THEN value.v
    ELSE IF value.kind = "list" THEN ListRepr(value.v)
    ELSE FloatRepr(value.v)

\* float(self.delay), line 25
DelayOf(value) == IF value.kind = "float" THEN value.v ELSE ParseFloat(value.v)

\* SafetyProcessCall.__init__ (110-112): the argument list of a commands value
Argv(value) == IF value.kind = "str" THEN ShlexSplit(value.v).toks ELSE value.v

\* Programs the shell of Popen (line 27, shell=True) finds and can execute;
\* any other first word ends the shell with "not found".
Programs == {<<"x">>}

\* Popen(process_args, shell=True) runs the first word of the list.
Runnable(commands) == Argv(commands) # <<>> /\ Argv(commands)[1] \in Programs

\* ------------------------------------------------------ cui_main.Process
\* Process.__init__: no handle, status "Stop", empty result.
\* name, commands, delay: here those of the first sample of
\* Application.__init__ (line 121), shortened: a name, a command given as
\* one string of two words, the default delay 0.
\* Fields below `result` are the state of the handle, its helper and child:
\*   has    : self.proc is not None
\*   hpc    : helper position: "flush" (83-90), "check" (93-99), "exiting"
\*            (process_entry returned, the process is flushing its queues),
\*            "done" (exited)
\*   iter   : completed iterations of the poll loop
\*   child  : "alive", "zombie" (exited, not reaped), "reaped", "none"
\*   forced : the child was alive when ProcessListener.kill signalled it
\*   qkill  : the kill queue holds a message
\*   sent   : lines the child has written
\*   pipe   : lines written and not yet read by the listener thread
\*   stdoutString : the listener's buffer
\*   qstdout: chunks forwarded by the helper and not yet drained
\*   leaked : earlier incarnations replaced while helper or child still ran
NewProcess ==
    [name |-> <<"s">>, commands |-> StrValue(<<"x", " ", "y">>),
     delay |-> FloatValue(0),
     status |-> "Stop", has |-> FALSE, result |-> <<>>,
     hpc |-> "none", iter |-> 0, child |-> "none", forced |-> FALSE,
     qkill |-> FALSE, sent |-> 0, pipe |-> <<>>, stdoutString |-> <<>>,
     qstdout |-> <<>>, leaked |-> 0]

\* Process(name, commands, delay), lines 11-17
Process(name, commands, delay) ==
    [NewProcess EXCEPT !.name = name, !.commands = commands, !.delay = delay]

\* A child is running (or not reaped) under this entry's current handle.
Unreaped(e) == e.child \in {"alive", "zombie"}

\* Process.start, lines 22-25 (after the optional kill): new handle, helper
\* forked, child spawned, status "Run".
ProcStart(e) ==
    [e EXCEPT !.status = "Run", !.has = TRUE,
              !.hpc = "flush", !.iter = 0, !.child = "alive", !.forced = FALSE,
              !.qkill = FALSE, !.sent = 0, !.pipe = <<>>, !.stdoutString = <<>>,
              !.qstdout = <<>>,
              !.leaked = e.leaked +
                  (IF e.has /\ (Unreaped(e) \/ e.hpc # "done") THEN 1 ELSE 0)]

\* Process.start line 20: kill first when a handle is associated.
\* (StartNeedsKillMutant: the test forgotten, the handle simply replaced.)
StartNeedsKillMutant(e) == FALSE
StartNeedsKill(e) == e.has

\* SafetyProcessCall.kill line 181: the kill message is queued.
PutKill(e) == [e EXCEPT !.qkill = TRUE]

\* SafetyProcessCall.kill 183-188 and Process.kill 42-43, after join returned:
\* queues closed, handle dropped, status "Stop".
\* (ProcKilledMutant: line 43 forgotten, the status left as it was.)
ProcKilledMutant(e) ==
    [e EXCEPT !.has = FALSE,
              !.hpc = "none", !.iter = 0, !.child = "none", !.forced = FALSE,
              !.qkill = FALSE, !.sent = 0, !.pipe = <<>>, !.stdoutString = <<>>,
              !.qstdout = <<>>]
ProcKilled(e) ==
    [e EXCEPT !.status = "Stop", !.has = FALSE,
              !.hpc = "none", !.iter = 0, !.child = "none", !.forced = FALSE,
              !.qkill = FALSE, !.sent = 0, !.pipe = <<>>, !.stdoutString = <<>>,
              !.qstdout = <<>>]

\* SafetyProcessCall.is_alive: the helper process has not exited.
\* (IsAliveMutant: alive as long as a helper was ever started.)
IsAliveMutant(e) == e.has
IsAlive(e) == e.has /\ e.hpc # "done"

\* Process.refresh_status lines 28-35 for an entry with a handle: status from
\* the helper's liveness, then one chunk of qstdout appended to result.
\* (RefreshStatusMutant: line 35 with = for +=, the result replaced by the
\* chunk read.)
RefreshStatusMutant(e) ==
    [e EXCEPT !.status = IF IsAlive(e) THEN "Run" ELSE "Stop",
              !.result = IF e.qstdout # <<>> THEN Head(e.qstdout)
                         ELSE e.result,
              !.qstdout = IF e.qstdout # <<>> THEN Tail(e.qstdout) ELSE <<>>]
RefreshStatus(e) ==
    [e EXCEPT !.status = IF IsAlive(e) THEN "Run" ELSE "Stop",
              !.result = IF e.qstdout # <<>> THEN e.result \o Head(e.qstdout)
                         ELSE e.result,
              !.qstdout = IF e.qstdout # <<>> THEN Tail(e.qstdout) ELSE <<>>]

\* Process.refresh_status for an entry without a handle: line 29 sets the
\* status, line 33 raises AttributeError (None has no readlines).
RefreshNoHandle(e) == [e EXCEPT !.status = "Stop"]

\* ------------------------------------------------- cui_main.ProcessTable
\* Python's list indexing, process_list[index] (lines 56, 59, 66, 73): the
\* 1-based position addressed by index i in a list of n, 0 for IndexError.
PyIndex(i, n) ==
    IF 0 <= i /\ i < n THEN i + 1
    ELSE IF -n <= i /\ i < 0 THEN n + i + 1
    ELSE 0

\* The indices a command may carry: int(command_list[1]) accepts any integer.
Indices == (0 - (MaxCount + 1)) .. MaxCount

\* list.pop(index), line 74
Pop(pl, k) == [j \in 1 .. (Len(pl) - 1) |-> IF j < k THEN pl[j] ELSE pl[j + 1]]

\* How a handler that completed, or raised, leaves the controller.
\*   ctx "cmd"   : inside process_command; an Exception becomes last_message
\*                 (lines 238-239) and the main loop goes on
\*   ctx "final" : the kill_all after the main loop (line 182)
\*   ctx "raise" : the kill_all of the except clause (lines 179-181)
Returned(pl, ctx, msg) ==
    [pl |-> pl, op |-> NoOp,
     pc |-> IF ctx = "cmd" THEN "loop" ELSE IF ctx = "final" THEN "done" ELSE "crashed",
     msg |-> IF ctx = "cmd" THEN msg ELSE last_message]

Raised(pl, ctx, exc) ==
    [pl |-> pl, op |-> NoOp,
     pc |-> IF ctx = "cmd" THEN "loop" ELSE "crashed",
     msg |-> IF ctx = "cmd" THEN exc ELSE last_message]

\* The controller blocks in proc.join() of SafetyProcessCall.kill (line 182)
\* for entry k, the kill message queued.
Blocked(pl, kind, ctx, k) ==
    [pl |-> [pl EXCEPT ![k] = PutKill(pl[k])],
     op |-> [kind |-> kind, k |-> k, ctx |-> ctx],
     pc |-> "join", msg |-> last_message]

\* Process.kill line 41 on an entry without a handle: None has no kill.
KillRaises(e) == ~e.has

\* ------------------------------------------------ the config file
\* The file with its text, and no file: open(fname, "r") raises
\* FileNotFoundError.
File(text) == [exists |-> TRUE, text |-> text]

NoFile == [exists |-> FALSE, text |-> <<>>]

\* the literal ":::" of lines 90 and 100
Delimiter == <<":", ":", ":">>

\* save_config lines 88-90: one line per entry, the fields formatted by str().
RECURSIVE Serialize(_)
Serialize(pl) ==
    IF pl = <<>> THEN <<>>
    ELSE Head(pl).name \o Delimiter \o Str(Head(pl).commands) \o Delimiter
            \o Str(Head(pl).delay) \o <<NL>> \o Serialize(Tail(pl))

\* load_config line 99: the lines of the text
ConfigLines(text) == Split(Strip(text), <<NL>>)

\* load_config lines 99-101 on the lines left: a line that does not split
\* into three fields raises ValueError (the unpacking of line 100) and ends
\* the loop; every line before it was added, its child started.  The
\* fields of a loaded entry are strings.
RECURSIVE LoadLines(_, _)
LoadLines(pl, lines) ==
    IF lines = <<>> THEN [pl |-> pl, ok |-> TRUE]
    ELSE LET parts == Split(Head(lines), Delimiter) IN
         IF Len(parts) # 3 THEN [pl |-> pl, ok |-> FALSE]
         ELSE LoadLines(Append(pl, ProcStart(Process(parts[1], StrValue(parts[2]),
                                                     StrValue(parts[3])))),
                        Tail(lines))

\* The bulk loops from entry k on, up to the next join, the end or an
\* exception: restart_all (61-63), kill_all (68-70), delete_all (76-78), and
\* load_config (95-101), which is delete_all followed by the adds.
RECURSIVE RunBulk(_, _, _, _)
RunBulk(pl, kind, ctx, k) ==
    IF k > Len(pl) THEN
        IF kind = "restartall" THEN Returned(pl, ctx, "Restart all")
        ELSE IF kind = "killall" THEN Returned(pl, ctx, "Kill all")
        ELSE IF kind = "deleteall" THEN Returned(<<>>, ctx, "Delete all")
        ELSE LET r == LoadLines(<<>>, ConfigLines(config.text)) IN
             IF r.ok THEN Returned(r.pl, ctx, "load")
             ELSE Raised(r.pl, ctx, "ValueError")
    ELSE IF kind = "restartall" THEN
        IF StartNeedsKill(pl[k]) THEN Blocked(pl, kind, ctx, k)
        ELSE RunBulk([pl EXCEPT ![k] = ProcStart(pl[k])], kind, ctx, k + 1)
    ELSE
        IF KillRaises(pl[k]) THEN Raised(pl, ctx, "AttributeError")
        ELSE Blocked(pl, kind, ctx, k)

\* What the suspended handler does once join returned for entry op.k.
\* (AfterJoinMutant: a bulk loop that resumes one entry too far.)
AfterJoinMutant(pl, o) ==
    LET killed == [pl EXCEPT ![o.k] = ProcKilled(pl[o.k])] IN
    IF o.kind = "kill" THEN Returned(killed, o.ctx, "Kill")
    ELSE IF o.kind = "start" THEN
        Returned([killed EXCEPT ![o.k] = ProcStart(killed[o.k])], o.ctx, "Restart")
    ELSE IF o.kind = "delete" THEN Returned(Pop(killed, o.k), o.ctx, "Delete")
    ELSE IF o.kind = "restartall" THEN
        RunBulk([killed EXCEPT ![o.k] = ProcStart(killed[o.k])], o.kind, o.ctx, o.k + 2)
    ELSE RunBulk(killed, o.kind, o.ctx, o.k + 2)
AfterJoin(pl, o) ==
    LET killed == [pl EXCEPT ![o.k] = ProcKilled(pl[o.k])] IN
    IF o.kind = "kill" THEN Returned(killed, o.ctx, "Kill")
    ELSE IF o.kind = "start" THEN
        Returned([killed EXCEPT ![o.k] = ProcStart(killed[o.k])], o.ctx, "Restart")
    ELSE IF o.kind = "delete" THEN Returned(Pop(killed, o.k), o.ctx, "Delete")
    ELSE IF o.kind = "restartall" THEN
        RunBulk([killed EXCEPT ![o.k] = ProcStart(killed[o.k])], o.kind, o.ctx, o.k + 1)
    ELSE RunBulk(killed, o.kind, o.ctx, o.k + 1)

Apply(r) ==
    /\ process_list' = r.pl
    /\ pc' = r.pc
    /\ op' = r.op
    /\ last_message' = r.msg
    /\ UNCHANGED <<config, pump>>

\* ------------------------------------------------------------- Init
\* Application.__init__ (lines 105-124): the table holds the entries of the
\* config file (or the samples), each added and started.
Init ==
    /\ \E n \in 1 .. MaxCount : process_list = [j \in 1 .. n |-> ProcStart(NewProcess)]
    /\ pc = "loop"
    /\ op = NoOp
    /\ last_message = ""
    /\ spawns = 0
    /\ written = 0
    /\ config = NoFile
    /\ pump = NewPump

\* ------------------------------------------- commands (process_command)
\* "start <i>" / "restart <i>": ProcessTable.restart, Process.start
CmdRestart(i) ==
    /\ pc = "loop"
    /\ LET k == PyIndex(i, Len(process_list)) IN
       IF k = 0 THEN
            /\ Apply(Raised(process_list, "cmd", "IndexError"))
            /\ UNCHANGED <<spawns, written>>
       ELSE /\ spawns < MaxSpawns
            /\ spawns' = spawns + 1
            /\ UNCHANGED written
            /\ IF StartNeedsKill(process_list[k])
               THEN Apply(Blocked(process_list, "start", "cmd", k))
               ELSE Apply(Returned([process_list EXCEPT ![k] = ProcStart(process_list[k])],
                                   "cmd", "Restart"))

\* "start all": ProcessTable.restart_all
CmdRestartAll ==
    /\ pc = "loop"
    /\ spawns + Len(process_list) <= MaxSpawns
    /\ spawns' = spawns + Len(process_list)
    /\ UNCHANGED written
    /\ Apply(RunBulk(process_list, "restartall", "cmd", 1))

\* "kill <i>" / "stop <i>": ProcessTable.kill, Process.kill
CmdKill(i) ==
    /\ pc = "loop"
    /\ LET k == PyIndex(i, Len(process_list)) IN
       IF k = 0 THEN Apply(Raised(process_list, "cmd", "IndexError"))
       ELSE IF KillRaises(process_list[k])
            THEN Apply(Raised(process_list, "cmd", "AttributeError"))
       ELSE Apply(Blocked(process_list, "kill", "cmd", k))
    /\ UNCHANGED <<spawns, written>>

\* "kill all": ProcessTable.kill_all
CmdKillAll ==
    /\ pc = "loop"
    /\ Apply(RunBulk(process_list, "killall", "cmd", 1))
    /\ UNCHANGED <<spawns, written>>

\* "delete <i>": ProcessTable.delete
CmdDelete(i) ==
    /\ pc = "loop"
    /\ LET k == PyIndex(i, Len(process_list)) IN
       IF k = 0 THEN Apply(Raised(process_list, "cmd", "IndexError"))
       ELSE IF KillRaises(process_list[k])
            THEN Apply(Raised(process_list, "cmd", "AttributeError"))
       ELSE Apply(Blocked(process_list, "delete", "cmd", k))
    /\ UNCHANGED <<spawns, written>>

\* "delete all": ProcessTable.delete_all
CmdDeleteAll ==
    /\ pc = "loop"
    /\ Apply(RunBulk(process_list, "deleteall", "cmd", 1))
    /\ UNCHANGED <<spawns, written>>

\* "add <name> <args>": ProcessTable.add
CmdAdd ==
    /\ pc = "loop"
    /\ Len(process_list) < MaxCount
    /\ spawns < MaxSpawns
    /\ spawns' = spawns + 1
    /\ UNCHANGED written
    /\ Apply(Returned(Append(process_list, ProcStart(NewProcess)), "cmd", "add"))

\* "add <name> <args...>" (lines 218-224): the entry's commands are the
\* list of the words after the name, its delay the default 0.
CmdAddArgs(name, args) ==
    /\ pc = "loop"
    /\ Len(process_list) < MaxCount
    /\ spawns < MaxSpawns
    /\ spawns' = spawns + 1
    /\ UNCHANGED written
    /\ Apply(Returned(Append(process_list,
                             ProcStart(Process(name, ListValue(args), FloatValue(0)))),
                      "cmd", "add"))

\* "save <fname>" (lines 225-228): ProcessTable.save_config
CmdSave ==
    /\ pc = "loop"
    /\ config' = File(Serialize(process_list))
    /\ last_message' = "save"
    /\ UNCHANGED <<process_list, pc, op, spawns, written, pump>>

\* "load <fname>" (lines 229-233): ProcessTable.load_config.  open raises
\* for a missing file; otherwise delete_all, then one add per line.
CmdLoad ==
    /\ pc = "loop"
    /\ IF ~config.exists
       THEN /\ Apply(Raised(process_list, "cmd", "FileNotFoundError"))
            /\ UNCHANGED <<spawns, written>>
       ELSE LET n == Len(LoadLines(<<>>, ConfigLines(config.text)).pl) IN
            /\ spawns + n <= MaxSpawns
            /\ spawns' = spawns + n
            /\ UNCHANGED written
            /\ Apply(RunBulk(process_list, "load", "cmd", 1))

\* SafetyProcessCall.kill line 182: join returns once the helper has exited;
\* the suspended handler goes on.
JoinReturn ==
    /\ pc = "join"
    /\ process_list[op.k].hpc = "done"
    /\ Apply(AfterJoin(process_list, op))
    /\ UNCHANGED <<spawns, written>>

\* ------------------------------------------------ main loop (mainloop/getch)
\* Application.refresh_process_list (329-340): refresh every entry in order;
\* the first entry without a handle raises after its status was set.
RECURSIVE RefreshFrom(_, _)
RefreshFrom(pl, k) ==
    IF k > Len(pl) THEN [pl |-> pl, raised |-> FALSE]
    ELSE IF pl[k].has
         THEN RefreshFrom([pl EXCEPT ![k] = RefreshStatus(pl[k])], k + 1)
         ELSE [pl |-> [pl EXCEPT ![k] = RefreshNoHandle(pl[k])], raised |-> TRUE]

\* getkey timed out (ch = -1, line 175): the refresh tick.  An exception
\* leaves the loop through the except clause: kill_all, then re-raise.
Tick ==
    /\ pc = "loop"
    /\ LET r == RefreshFrom(process_list, 1) IN
       IF r.raised THEN Apply(RunBulk(r.pl, "killall", "raise", 1))
       ELSE Apply([pl |-> r.pl, op |-> NoOp, pc |-> "loop", msg |-> last_message])
    /\ UNCHANGED <<spawns, written>>

\* "exit" (lines 190-192) or Escape (157-158): finish is set, the loop ends
\* and line 182 runs kill_all.
Finish(byCommand) ==
    /\ pc = "loop"
    /\ LET r == RunBulk(process_list, "killall", "final", 1) IN
       Apply([r EXCEPT !.msg = IF byCommand THEN "Exit" ELSE last_message])
    /\ UNCHANGED <<spawns, written>>

\* Which exceptions the except clause of mainloop (line 179) catches:
\* `except Exception` does not catch KeyboardInterrupt.
Caught(exc) == exc # "KeyboardInterrupt"

\* Ctrl+C (line 153-154) raises KeyboardInterrupt, Ctrl+Z (155-156) EOFError,
\* out of getch and the loop.
KeyRaises(exc) ==
    /\ pc = "loop"
    /\ IF Caught(exc)
       THEN Apply(RunBulk(process_list, "killall", "raise", 1))
       ELSE Apply([pl |-> process_list, op |-> NoOp, pc |-> "crashed",
                   msg |-> last_message])
    /\ UNCHANGED <<spawns, written>>

\* ------------------------------------------------ the child (Popen'd program)
Entries == 1 .. Len(process_list)

Update(k, e) ==
    /\ process_list' = [process_list EXCEPT ![k] = e]
    /\ UNCHANGED <<pc, op, last_message, spawns, config, pump>>

\* The child writes its next line to stdout.
ChildEmit(k) ==
    LET e == process_list[k] IN
    /\ e.child = "alive"
    /\ written < MaxLines
    /\ written' = written + 1
    /\ Update(k, [e EXCEPT !.sent = e.sent + 1, !.pipe = Append(e.pipe, e.sent + 1)])

\* The child exits on its own.
ChildExit(k) ==
    LET e == process_list[k] IN
    /\ e.child = "alive"
    /\ Update(k, [e EXCEPT !.child = "zombie"])
    /\ UNCHANGED written

\* ------------------------------------- the helper (ProcessListener)
\* _listen_stdout (52-58): readline returns the pipe's next line, which is
\* appended to stdoutString under the lock.
Listen(k) ==
    LET e == process_list[k] IN
    /\ e.has
    /\ e.hpc \in {"flush", "check"}
    /\ e.pipe # <<>>
    /\ Update(k, [e EXCEPT !.pipe = Tail(e.pipe),
                           !.stdoutString = Append(e.stdoutString, Head(e.pipe))])
    /\ UNCHANGED written

\* process_entry 83-90: under the lock, a non-empty buffer is put on the
\* queue and cleared.
HelperFlush(k) ==
    LET e == process_list[k] IN
    /\ e.has
    /\ e.hpc = "flush"
    /\ Update(k, [e EXCEPT !.hpc = "check",
                           !.qstdout = IF e.stdoutString # <<>>
                                       THEN Append(e.qstdout, e.stdoutString)
                                       ELSE e.qstdout,
                           !.stdoutString = <<>>])
    /\ UNCHANGED written

\* Lines put on qstdout and not yet taken by the controller.
RECURSIVE Pending(_)
Pending(q) == IF q = <<>> THEN 0 ELSE Len(Head(q)) + Pending(Tail(q))

\* A process that has put data on a multiprocessing.Queue exits only after
\* the queue's feeder thread has written all of it to the pipe (Process,
\* line 128; Queue, lines 125-127): what the controller has not taken must
\* fit the pipe.
QueueFlushed(e) == Pending(e.qstdout) <= QueueCap

\* ProcessListener.kill (33-40) and the return of process_entry: the child
\* is signalled and waited for.  The listener's buffer and its end of the
\* child's pipe go with the helper: lines it has not forwarded are gone.
HelperExit(e) ==
    [e EXCEPT !.hpc = IF QueueFlushed(e) THEN "done" ELSE "exiting",
              !.iter = 0, !.pipe = <<>>, !.stdoutString = <<>>,
              !.forced = (e.child = "alive"),
              !.child = "reaped"]

\* The helper process, its queues flushed, exits.
HelperDone(k) ==
    LET e == process_list[k] IN
    /\ e.has
    /\ e.hpc = "exiting"
    /\ QueueFlushed(e)
    /\ Update(k, [e EXCEPT !.hpc = "done"])
    /\ UNCHANGED written

\* The bound of the poll loop, line 81.
LoopEnds(n) == n >= PollLimit

\* process_entry 92-100: leave on a kill message, or when poll() finds the
\* child exited (which reaps it); otherwise sleep and iterate, until the
\* range is exhausted; after the loop, proc.kill().
HelperCheck(k) ==
    LET e == process_list[k] IN
    /\ e.has
    /\ e.hpc = "check"
    /\ IF e.qkill \/ e.child # "alive" \/ LoopEnds(e.iter + 1)
       THEN Update(k, HelperExit(e))
       ELSE Update(k, [e EXCEPT !.hpc = "flush", !.iter = e.iter + 1])
    /\ UNCHANGED written

\* ------------------------------------------------------------- Next
Controller ==
    \/ \E i \in Indices : CmdRestart(i)
    \/ CmdRestartAll
    \/ \E i \in Indices : CmdKill(i)
    \/ CmdKillAll
    \/ \E i \in Indices : CmdDelete(i)
    \/ CmdDeleteAll
    \/ CmdAdd
    \/ JoinReturn
    \/ Tick
    \/ \E b \in BOOLEAN : Finish(b)
    \/ \E exc \in {"KeyboardInterrupt", "EOFError"} : KeyRaises(exc)

Child == \E k \in Entries : ChildEmit(k) \/ ChildExit(k)

Helper == \E k \in Entries : Listen(k) \/ HelperFlush(k) \/ HelperCheck(k) \/ HelperDone(k)

Next == Controller \/ Child \/ Helper

Spec == Init /\ [][Next]_vars

\* The main thread of entry k's helper process.
HelperMain(k) == k \in Entries /\ (HelperFlush(k) \/ HelperCheck(k) \/ HelperDone(k))

\* ------------------------------------------- the dashboard with a config file
\* The same program, followed through save, load and add with arguments:
\* it starts with one sample entry and a config file on disk, and its
\* children print nothing.

\* names and argument lists a user types after "add"
Names == {<<"x">>, <<"y">>}

ArgLists == {<<>>, << <<"x">> >>, << <<"z">> >>, << <<"x">>, <<"y">> >>}

\* one line of a config file
ConfigLine(name, commands, delay) ==
    name \o Delimiter \o commands \o Delimiter \o delay \o <<NL>>

\* config files found on disk: none, an empty one, one of two well-formed
\* lines, and two with a line that lacks a delimiter, first or second
ConfigFiles ==
    {NoFile,
     File(<<>>),
     File(ConfigLine(<<"x">>, <<"x", " ", "y">>, <<"0", ".", "5">>)
             \o ConfigLine(<<"y">>, <<"x">>, <<"0">>)),
     File(ConfigLine(<<"x">>, <<"x">>, <<"0">>) \o <<"y", ":", ":", "x", NL>>),
     File(<<"y", ":", ":", ":", "x", NL>> \o ConfigLine(<<"x">>, <<"x">>, <<"0">>))}

ConfigInit ==
    /\ process_list = <<ProcStart(NewProcess)>>
    /\ pc = "loop"
    /\ op = NoOp
    /\ last_message = ""
    /\ spawns = 0
    /\ written = 0
    /\ config \in ConfigFiles
    /\ pump = NewPump

ConfigNext ==
    \/ \E name \in Names, args \in ArgLists : CmdAddArgs(name, args)
    \/ CmdSave
    \/ CmdLoad
    \/ \E i \in 0 .. (MaxCount - 1) : CmdRestart(i)
    \/ \E i \in 0 .. (MaxCount - 1) : CmdKill(i)
    \/ CmdDeleteAll
    \/ JoinReturn
    \/ Tick
    \/ \E k \in Entries : ChildExit(k) \/ HelperFlush(k) \/ HelperCheck(k) \/ HelperDone(k)

ConfigSpec == ConfigInit /\ [][ConfigNext]_vars

\* ------------------------------------------- one entry through its incarnations
\* The dashboard with the single entry of `add`, followed through kill and
\* restart only: nothing is added or removed, so every start counted by
\* spawns is a later incarnation of that entry.
RestartInit ==
    /\ process_list = <<ProcStart(NewProcess)>>
    /\ pc = "loop"
    /\ op = NoOp
    /\ last_message = ""
    /\ spawns = 0
    /\ written = 0
    /\ config = NoFile
    /\ pump = NewPump

RestartNext ==
    \/ \E i \in 0 .. (MaxCount - 1) : CmdRestart(i)
    \/ \E i \in 0 .. (MaxCount - 1) : CmdKill(i)
    \/ JoinReturn
    \/ Tick
    \/ \E k \in Entries : ChildEmit(k) \/ ChildExit(k)
    \/ \E k \in Entries : Listen(k) \/ HelperFlush(k) \/ HelperCheck(k) \/ HelperDone(k)

RestartSpec == RestartInit /\ [][RestartNext]_vars


\* ------------------------------ one ProcessListener, statement by statement
\* The helper process of one incarnation: the child, the listener thread of
\* stdout (the one of stderr runs the same code on its own buffer) and
\* process_entry's poll loop, interleaved at the statements of lines 52-58
\* and 81-100.  The dashboard is left out: nothing drains the queue, and a
\* kill message may arrive at any time.

PumpStep(p) ==
    /\ pump' = p
    /\ UNCHANGED <<process_list, pc, op, last_message, spawns, written, config>>

\* The helper process runs: its threads end with it.
PumpRuns == pump.ppc # "returned"

\* Lock.acquire() returns only while nobody holds the lock.
\* (CanAcquireMutant: a lock that does not exclude.)
CanAcquireMutant(p) == TRUE
CanAcquire(p) == p.lock = "free"

\* The child writes its next line to stdout.
PumpChildEmit ==
    /\ PumpRuns
    /\ pump.child = "alive"
    /\ pump.sent < MaxLines
    /\ PumpStep([pump EXCEPT !.sent = pump.sent + 1,
                             !.stream = Append(pump.stream, pump.sent + 1)])

\* The child exits on its own.
PumpChildExit ==
    /\ PumpRuns
    /\ pump.child = "alive"
    /\ PumpStep([pump EXCEPT !.child = "exited"])

\* SafetyProcessCall.kill line 181, in the dashboard's process.
PumpPutKill ==
    /\ PumpRuns
    /\ ~pump.qkill
    /\ PumpStep([pump EXCEPT !.qkill = TRUE])

\* Line 55: self.process.stdout.readline().  With self.process None the
\* attribute access raises AttributeError and the thread ends; otherwise
\* readline returns the next line, or "" once the child has exited and the
\* pipe is empty, and blocks while the child lives and has written nothing.
ListenReadline ==
    /\ PumpRuns
    /\ pump.lpc = "readline"
    /\ IF pump.process = "none" THEN PumpStep([pump EXCEPT !.lpc = "dead"])
       ELSE IF pump.stream # <<>>
            THEN PumpStep([pump EXCEPT !.line = <<Head(pump.stream)>>,
                                      !.stream = Tail(pump.stream),
                                      !.lpc = "lock"])
       ELSE /\ pump.child = "exited"
            /\ PumpStep([pump EXCEPT !.line = <<>>, !.lpc = "lock"])

\* Line 56
ListenAcquire ==
    /\ PumpRuns
    /\ pump.lpc = "lock"
    /\ CanAcquire(pump)
    /\ PumpStep([pump EXCEPT !.lock = "listener", !.lpc = "load"])

\* Line 57, first half: the new value of self.stdoutString is computed.
ListenLoad ==
    /\ PumpRuns
    /\ pump.lpc = "load"
    /\ PumpStep([pump EXCEPT !.tmp = pump.stdoutString \o pump.line, !.lpc = "store"])

\* Line 57, second half: it is stored.
ListenStore ==
    /\ PumpRuns
    /\ pump.lpc = "store"
    /\ PumpStep([pump EXCEPT !.stdoutString = pump.tmp,
                             !.appended = pump.appended \o pump.line,
                             !.lpc = "release"])

\* Line 58, and back to the head of `while True`.
ListenRelease ==
    /\ PumpRuns
    /\ pump.lpc = "release"
    /\ PumpStep([pump EXCEPT !.lock = "free", !.lpc = "readline"])

\* Line 83
PollAcquire ==
    /\ pump.ppc = "lock"
    /\ CanAcquire(pump)
    /\ PumpStep([pump EXCEPT !.lock = "poll", !.ppc = "test"])

\* Line 84
PollTest ==
    /\ pump.ppc = "test"
    /\ PumpStep([pump EXCEPT !.ppc = IF Len(pump.stdoutString) > 0 THEN "put"
                                     ELSE "release"])

\* Line 85
PollPut ==
    /\ pump.ppc = "put"
    /\ PumpStep([pump EXCEPT !.qstdout = Append(pump.qstdout, pump.stdoutString),
                             !.ppc = "clear"])

\* Line 86
PollClear ==
    /\ pump.ppc = "clear"
    /\ PumpStep([pump EXCEPT !.stdoutString = <<>>, !.ppc = "release"])

\* Line 90
PollRelease ==
    /\ pump.ppc = "release"
    /\ PumpStep([pump EXCEPT !.lock = "free", !.ppc = "qkill"])

\* Lines 93-94
PollKillMessage ==
    /\ pump.ppc = "qkill"
    /\ PumpStep([pump EXCEPT !.ppc = IF pump.qkill THEN "kill" ELSE "alive"])

\* Lines 97-99 and the head of the for loop, line 81
PollAlive ==
    /\ pump.ppc = "alive"
    /\ IF pump.child # "alive" \/ LoopEnds(pump.iter + 1)
       THEN PumpStep([pump EXCEPT !.ppc = "kill"])
       ELSE PumpStep([pump EXCEPT !.ppc = "lock", !.iter = pump.iter + 1])

\* Line 100, ProcessListener.kill (38-40): the child is killed and waited
\* for, self.process becomes None.
PollKill ==
    /\ pump.ppc = "kill"
    /\ PumpStep([pump EXCEPT !.child = "exited", !.process = "none",
                             !.ppc = "return"])

\* process_entry returns and the helper process ends, its threads with it.
PollReturn ==
    /\ pump.ppc = "return"
    /\ PumpStep([pump EXCEPT !.ppc = "returned"])

PumpInit ==
    /\ process_list = <<>>
    /\ pc = "loop"
    /\ op = NoOp
    /\ last_message = ""
    /\ spawns = 0
    /\ written = 0
    /\ config = NoFile
    /\ pump = NewPump

PumpNext ==
    \/ PumpChildEmit
    \/ PumpChildExit
    \/ PumpPutKill
    \/ ListenReadline
    \/ ListenAcquire
    \/ ListenLoad
    \/ ListenStore
    \/ ListenRelease
    \/ PollAcquire
    \/ PollTest
    \/ PollPut
    \/ PollClear
    \/ PollRelease
    \/ PollKillMessage
    \/ PollAlive
    \/ PollKill
    \/ PollReturn

PumpSpec == PumpInit /\ [][PumpNext]_vars

\* ================================================================ claims

\* C2 (as claimed): kill() on an entry with a process always returns: while
\* the controller is blocked in join, either join can return or the helper
\* it waits for can take its next step.
C2_KillAlwaysReturns ==
    pc = "join" => (ENABLED JoinReturn \/ ENABLED HelperMain(op.k))

\* C1: every start found the entry's previous incarnation fully gone (helper
\* exited, child reaped) before it spawned the next one, and an entry without
\* a handle has no child: at most one live child per entry.
C1_OneLiveChild ==
    \A k \in Entries :
        /\ process_list[k].leaked = 0
        /\ ~process_list[k].has => process_list[k].child = "none"

\* C1 witness: start is called on an entry that has a process; it is
\* suspended in kill, and the previous child, alive when signalled, has been
\* terminated and reaped before anything new is spawned.
C1_Witness ==
    /\ pc = "join"
    /\ op.kind = "start"
    /\ process_list[op.k].hpc = "done"
    /\ process_list[op.k].child = "reaped"
    /\ process_list[op.k].forced

\* kill_all as a command runs in this step (from its start, or resumed
\* after a join) and returns to the main loop.
KillAllReturns ==
    /\ CmdKillAll \/ (JoinReturn /\ op.kind = "killall" /\ op.ctx = "cmd")
    /\ pc' = "loop"

\* C3 (as claimed): kill_all completes without error whatever entries are
\* already stopped, and leaves every entry stopped.
C3_KillAllTolerant ==
    [][KillAllReturns =>
          /\ last_message' = "Kill all"
          /\ \A k \in Entries : ~process_list'[k].has /\ process_list'[k].status = "Stop"]_vars

\* C4 (as claimed): a refresh tick never fails; the main loop goes on, and an
\* entry without a handle is reported "Stop" with its history unchanged.
C4_RefreshNeverFails ==
    [][Tick =>
          /\ pc' = "loop"
          /\ \A k \in Entries : ~process_list[k].has =>
                /\ process_list'[k].status = "Stop"
                /\ process_list'[k].result = process_list[k].result]_vars

\* A start of entry k completes in this step.
Started(k) ==
    \/ JoinReturn /\ op.kind \in {"start", "restartall"} /\ op.k = k
    \/ /\ pc = "loop" /\ Len(process_list') = Len(process_list)
       /\ k \in Entries /\ ~process_list[k].has /\ process_list'[k].has
    \/ CmdAdd /\ k = Len(process_list')

\* C5 (as claimed): after a refresh the status is "Stop" exactly when the
\* child has exited or no process is associated.
C5_StopIffChildExited ==
    [][Tick /\ pc' = "loop" =>
          \A k \in Entries :
              process_list'[k].status = "Stop" <=> process_list'[k].child # "alive"]_vars

\* C5 (amended): every start sets "Run"; after a refresh the status is "Stop"
\* exactly when the helper process has exited or no process is associated;
\* the helper exits only with the child terminated and reaped, so "Stop"
\* implies the child has exited and a refresh while the child is alive
\* reports "Run"; the helper's first check after the child's exit reaps the
\* child and ends the poll loop.
C5_StopIffHelperExited ==
    /\ [][\A k \in 1 .. MaxCount : Started(k) => process_list'[k].status = "Run"]_vars
    /\ [][Tick =>
            \A k \in Entries :
                /\ (\A j \in 1 .. k : process_list[j].has) =>
                      (process_list'[k].status = "Stop" <=> process_list[k].hpc = "done")
                /\ (~process_list[k].has /\ \A j \in 1 .. (k - 1) : process_list[j].has) =>
                      process_list'[k].status = "Stop"]_vars
    /\ [](\A k \in Entries :
            /\ process_list[k].hpc \in {"exiting", "done"} => process_list[k].child = "reaped"
            /\ process_list[k].child = "alive" => IsAlive(process_list[k]))
    /\ [][\A k \in Entries :
            (HelperCheck(k) /\ process_list[k].child # "alive") =>
                /\ process_list'[k].hpc \in {"exiting", "done"}
                /\ process_list'[k].child = "reaped"]_vars

\* C5 witness: a refresh has reported "Stop" for an entry that still has its
\* handle: the child exited on its own and the helper followed.
C5_Witness ==
    \E k \in Entries :
        /\ process_list[k].has
        /\ process_list[k].status = "Stop"
        /\ process_list[k].hpc = "done"
        /\ ~process_list[k].forced

\* C6 (as claimed): a child is forcefully terminated only when a kill was
\* requested for its entry (kill, restart, remove or teardown queue the kill
\* message).
C6_KillOnlyOnRequest ==
    \A k \in Entries : process_list[k].forced => process_list[k].qkill

\* The lines 1 .. n in emission order.
Lines(n) == [j \in 1 .. n |-> j]

\* C7 (as claimed): for a first incarnation whose child wrote its lines and
\* exited on its own, once the helper has exited and the queue is drained
\* (nothing more can arrive) the history holds every line written, in order,
\* exactly once.
C7_NoLineLost ==
    spawns = 0 =>
        \A k \in Entries :
            (/\ process_list[k].has
             /\ process_list[k].hpc = "done"
             /\ ~process_list[k].forced
             /\ process_list[k].qstdout = <<>>)
                => process_list[k].result = Lines(process_list[k].sent)

\* C8 (as claimed): once the main loop has ended, by whatever path, no
\* entry's child is alive.
C8_NoChildAfterShutdown ==
    pc \in {"done", "crashed"} =>
        \A k \in Entries : process_list[k].child # "alive"

AllRunning ==
    \A k \in Entries : process_list[k].has /\ process_list[k].status = "Run"

AllStopped ==
    \A k \in Entries : ~process_list[k].has /\ process_list[k].status = "Stop"

\* restart_all as a command completes in this step.
RestartAllReturns ==
    /\ CmdRestartAll \/ (JoinReturn /\ op.kind = "restartall")
    /\ pc' = "loop"

\* C9: kill_all on a registry whose entries are all running does not raise
\* (it raises only at an entry without a handle) and, completed, leaves every
\* entry "Stop" without handle or child; restart_all, completed, leaves every
\* entry "Run" with a handle and nothing left over of earlier incarnations,
\* and on a registry whose entries are all stopped (after kill_all) it
\* returns at once with one new live child per entry.
C9_BulkAppliesToAll ==
    /\ [][(CmdKillAll /\ AllRunning) => last_message' # "AttributeError"]_vars
    /\ [][(JoinReturn /\ op.kind = "killall" /\ op.ctx = "cmd"
             /\ last_message' = "AttributeError") =>
                \E j \in (op.k + 1) .. Len(process_list) : ~process_list[j].has]_vars
    /\ [][(KillAllReturns /\ last_message' = "Kill all") =>
            /\ Len(process_list') = Len(process_list)
            /\ \A k \in Entries :
                  /\ process_list'[k].status = "Stop"
                  /\ ~process_list'[k].has
                  /\ process_list'[k].child = "none"]_vars
    /\ [][RestartAllReturns =>
            /\ last_message' = "Restart all"
            /\ Len(process_list') = Len(process_list)
            /\ \A k \in Entries :
                  /\ process_list'[k].status = "Run"
                  /\ process_list'[k].has
                  /\ process_list'[k].leaked = 0]_vars
    /\ [][(CmdRestartAll /\ AllStopped) =>
            /\ pc' = "loop"
            /\ \A k \in Entries :
                  /\ process_list'[k].child = "alive"
                  /\ IsAlive(process_list'[k])
                  /\ process_list'[k].sent = 0]_vars

\* C9 witness: restart_all has returned on a full registry and every entry
\* runs again, each with a live child.
C9_Witness ==
    /\ pc = "loop"
    /\ last_message = "Restart all"
    /\ Len(process_list) = MaxCount
    /\ spawns = MaxCount
    /\ \A k \in Entries : process_list[k].status = "Run" /\ process_list[k].child = "alive"

\* C10 (as claimed): restart, kill and remove with an index outside
\* 0 <= i < count, negative ones included, fail with IndexError and change
\* nothing; inside the range the index check passes.
C10_IndexOutOfRange ==
    [][\A i \in Indices :
          (pc = "loop" /\ (CmdRestart(i) \/ CmdKill(i) \/ CmdDelete(i))) =>
              IF 0 <= i /\ i < Len(process_list)
              THEN last_message' # "IndexError"
              ELSE last_message' = "IndexError" /\ process_list' = process_list]_vars

\* delete as a command completes in this step.
DeleteReturns ==
    JoinReturn /\ op.kind = "delete" /\ op.ctx = "cmd"

\* delete_all as a command runs in this step and returns to the main loop.
DeleteAllReturns ==
    /\ CmdDeleteAll \/ (JoinReturn /\ op.kind = "deleteall" /\ op.ctx = "cmd")
    /\ pc' = "loop"

\* C11 (as claimed): remove(i) with 0 <= i < count raises nothing whatever
\* the entry's state: it kills the entry (the controller is in the kill's
\* join) and, the kill returned, the registry is the old one without entry i,
\* the others in order; removeAll raises nothing and leaves an empty registry.
C11_RemoveAnyState ==
    /\ [][\A i \in 0 .. (MaxCount - 1) :
            (CmdDelete(i) /\ i < Len(process_list)) =>
                /\ pc' = "join"
                /\ op' = [kind |-> "delete", k |-> i + 1, ctx |-> "cmd"]
                /\ Len(process_list') = Len(process_list)]_vars
    /\ [][DeleteReturns =>
            /\ last_message' = "Delete"
            /\ Len(process_list') = Len(process_list) - 1
            /\ \A j \in 1 .. Len(process_list') :
                  /\ j < op.k => process_list'[j] = process_list[j]
                  /\ j >= op.k => process_list'[j] = process_list[j + 1]]_vars
    /\ [][DeleteAllReturns =>
            /\ last_message' = "Delete all"
            /\ process_list' = <<>>]_vars

\* The message of the not-started error, ValueError("Not started")
\* (process_attach.py 179-180).
NotStarted == "Not started"

\* C12 (as claimed): a single kill on an entry without a process fails with
\* the not-started error as the message shown, and changes nothing: the
\* entry stays "Stop", the registry is as it was, the main loop goes on.
C12_KillNotStarted ==
    [][\A i \in 0 .. (MaxCount - 1) :
          (CmdKill(i) /\ i < Len(process_list) /\ ~process_list[i + 1].has) =>
              /\ last_message' = NotStarted
              /\ pc' = "loop"
              /\ process_list' = process_list
              /\ process_list'[i + 1].status = "Stop"]_vars

\* load as a command runs in this step (from its start, or resumed after a
\* join) and returns to the main loop.
LoadReturns ==
    /\ CmdLoad \/ (JoinReturn /\ op.kind = "load" /\ op.ctx = "cmd")
    /\ pc' = "loop"

\* Two entries agree in name, in the command they run and in start delay.
SameEntry(a, b) ==
    /\ a.name = b.name
    /\ Argv(a.commands) = Argv(b.commands)
    /\ DelayOf(a.delay) = DelayOf(b.delay)

\* C13 (as claimed): a load of the file that save wrote from this registry
\* succeeds and rebuilds the registry: as many entries and, position by
\* position, the same name, command and delay.
C13_RoundTrip ==
    [][(LoadReturns /\ config = File(Serialize(process_list))) =>
          /\ last_message' = "load"
          /\ Len(process_list') = Len(process_list)
          /\ \A j \in 1 .. Len(process_list') :
                SameEntry(process_list'[j], process_list[j])]_vars

\* Some line of the text does not contain the delimiter exactly twice.
Malformed(text) ==
    \E j \in 1 .. Len(ConfigLines(text)) :
        Len(Split(ConfigLines(text)[j], Delimiter)) # 3

\* The entry was built from a line of the text.
FromFile(e, text) ==
    \E j \in 1 .. Len(ConfigLines(text)) :
        LET parts == Split(ConfigLines(text)[j], Delimiter) IN
        /\ Len(parts) = 3
        /\ e.name = parts[1]
        /\ e.commands = StrValue(parts[2])
        /\ e.delay = StrValue(parts[3])

\* C14 (as claimed): the load of a malformed config fails with the
\* malformed-config error (the ValueError of line 100) and loads nothing:
\* when the error is shown, whatever entry of the registry comes from a line
\* of the file was there, as it is, before the load returned; none was added
\* and no child was started for one.
C14_NoPartialLoad ==
    [][(LoadReturns /\ config.exists /\ Malformed(config.text)) =>
          /\ last_message' = "ValueError"
          /\ \A k \in 1 .. Len(process_list') :
                FromFile(process_list'[k], config.text) =>
                    /\ k <= Len(process_list)
                    /\ process_list'[k] = process_list[k]]_vars

\* A start of entry k (add, or start/restart) returns in this step.
StartReturns(k) ==
    \/ (\E name \in Names, args \in ArgLists : CmdAddArgs(name, args))
           /\ k = Len(process_list')
    \/ (\E i \in 0 .. (MaxCount - 1) : CmdRestart(i) /\ k = i + 1)
           /\ k <= Len(process_list) /\ pc' = "loop"
    \/ JoinReturn /\ op.kind = "start" /\ op.k = k

\* C15 (as claimed): a start whose program cannot be started does not report
\* success: the message shown is the failure, the entry is "Stop" and has no
\* live child; and a start whose program can be started succeeds whatever
\* happened before: the entry is "Run" with a live child.
C15_SpawnFailure ==
    [][\A k \in 1 .. MaxCount :
          StartReturns(k) =>
              IF Runnable(process_list'[k].commands)
              THEN /\ last_message' \in {"add", "Restart"}
                   /\ process_list'[k].status = "Run"
                   /\ process_list'[k].child = "alive"
              ELSE /\ last_message' \notin {"add", "Restart"}
                   /\ process_list'[k].status = "Stop"
                   /\ process_list'[k].child # "alive"]_vars

\* The user asks the dashboard to end: exit or Escape, Ctrl+C or Ctrl+Z.
ExitRequested ==
    \/ \E b \in BOOLEAN : Finish(b)
    \/ \E exc \in {"KeyboardInterrupt", "EOFError"} : KeyRaises(exc)

\* C16 (as claimed): no failure ends the main loop: every step the
\* controller takes from the loop on a command or a refresh tick, not being
\* a request to exit, leaves it in the loop or inside a command's handler;
\* only a request to exit leads to the teardown and the end.
C16_LoopSurvivesFailures ==
    [][(pc = "loop" /\ pc' # "loop" /\ ~ExitRequested) =>
          /\ pc' = "join"
          /\ op'.ctx = "cmd"]_vars

\* restart_all or kill_all, typed as a command, runs in this step: from its
\* start, or resumed after the join of entry op.k.
BulkStep ==
    \/ CmdKillAll
    \/ CmdRestartAll
    \/ JoinReturn /\ op.kind \in {"killall", "restartall"} /\ op.ctx = "cmd"

\* The entry the loop of this step begins with.
BulkFirst == IF pc = "join" THEN op.k ELSE 1

\* C17: restart_all and kill_all go through the registry in order, with no
\* rollback.  A step of the loop leaves the entries before the one it
\* resumes at as they are; when it stops in the kill of entry k, entry k has
\* got the kill message and nothing else, and no later entry is changed.
\* When kill_all fails, it fails at an entry k without a handle: every entry
\* before k is "Stop" without handle, and entry k and all after it are
\* exactly as they were.  While the loop waits at entry k every entry before
\* k has had the operation applied, and a loop that ends without failure has
\* applied it to all.
C17_SequentialNoRollback ==
    /\ [][BulkStep =>
            /\ Len(process_list') = Len(process_list)
            /\ \A j \in Entries :
                  /\ j < BulkFirst => process_list'[j] = process_list[j]
                  /\ (pc' = "join" /\ j > op'.k) => process_list'[j] = process_list[j]
                  /\ (pc' = "join" /\ j = op'.k) =>
                        process_list'[j] = PutKill(process_list[j])]_vars
    /\ [][(BulkStep /\ pc' = "loop" /\ last_message' = "AttributeError") =>
            \E k \in BulkFirst .. Len(process_list) :
                /\ ~process_list[k].has
                /\ \A j \in 1 .. (k - 1) :
                      ~process_list'[j].has /\ process_list'[j].status = "Stop"
                /\ \A j \in k .. Len(process_list) :
                      process_list'[j] = process_list[j]]_vars
    /\ [][(BulkStep /\ pc' = "loop" /\ last_message' # "AttributeError") =>
            \A j \in Entries :
                IF last_message' = "Kill all"
                THEN ~process_list'[j].has /\ process_list'[j].status = "Stop"
                ELSE process_list'[j].has /\ process_list'[j].status = "Run"]_vars
    /\ []((pc = "join" /\ op.kind = "killall") =>
            \A j \in 1 .. (op.k - 1) :
                ~process_list[j].has /\ process_list[j].status = "Stop")
    /\ []((pc = "join" /\ op.kind = "restartall") =>
            \A j \in 1 .. (op.k - 1) :
                process_list[j].has /\ process_list[j].status = "Run")

\* C17 witness: kill_all has failed on the last entry of a full registry,
\* which was stopped; the entries before it are killed and stay so.
C17_Witness ==
    /\ pc = "loop"
    /\ last_message = "AttributeError"
    /\ Len(process_list) = MaxCount
    /\ \A j \in Entries : ~process_list[j].has /\ process_list[j].status = "Stop"

\* The lines of a sequence of chunks, in order.
RECURSIVE Flatten(_)
Flatten(q) == IF q = <<>> THEN <<>> ELSE Head(q) \o Flatten(Tail(q))

\* C18: the drain is atomic with respect to the read loop.  Whenever the
\* lock is free, the chunks forwarded so far followed by the buffer are
\* exactly the lines the reader appended, in order, each once: no clear has
\* removed a line that was not forwarded, no line was forwarded twice; the
\* appended lines are the child's lines 1, 2, ... without gap or repeat; and
\* no chunk is empty (an empty buffer forwards nothing).
C18_DrainAtomic ==
    /\ pump.lock = "free" =>
          Flatten(pump.qstdout) \o pump.stdoutString = pump.appended
    /\ pump.appended = Lines(Len(pump.appended))
    /\ \A j \in 1 .. Len(pump.qstdout) : pump.qstdout[j] # <<>>

\* C18 witness: the reader has read line 2 and waits for the lock while the
\* poll loop, holding it, has forwarded line 1 and is about to clear the
\* buffer: an append and a read-and-clear that overlap.
C18_Witness ==
    /\ pump.lpc = "lock"
    /\ pump.line = <<2>>
    /\ pump.lock = "poll"
    /\ pump.ppc = "clear"
    /\ pump.qstdout = << <<1>> >>

\* C19 (as claimed): when the stream has ended (readline returned "") the
\* read loop is left: the thread does not go on to lock, append and read
\* again; and it never ends by an exception.
C19_ReadLoopExitsSilently ==
    /\ pump.lpc \in {"lock", "load", "store", "release"} => pump.line # <<>>
    /\ pump.lpc # "dead"

\* C20 (as claimed): every start leaves the entry with fresh, empty kill and
\* stdout queues, whatever the earlier incarnation had queued, and the child
\* of a later incarnation (a restart has returned, no command is in
\* progress) is forcefully terminated only when a kill message was queued
\* after that start.
C20_IncarnationsIndependent ==
    /\ [][\A k \in 1 .. MaxCount :
            StartReturns(k) =>
                /\ ~process_list'[k].qkill
                /\ process_list'[k].qstdout = <<>>]_vars
    /\ [](spawns >= 1 /\ pc = "loop" =>
            \A k \in Entries : process_list[k].forced => process_list[k].qkill)

\* s is a prefix of t.
IsPrefix(s, t) == Len(s) <= Len(t) /\ SubSeq(t, 1, Len(s)) = s

\* ProcessTable.get_status line 85: the result column of an entry.
LastLine(e) == IF Len(e.result) = 0 THEN <<>> ELSE <<e.result[Len(e.result)]>>

\* C21: in every step that removes no entry (start, restart, kill, refresh,
\* add, and the steps of the helpers and children) each entry's result
\* after the step has its result before the step as a prefix; a start that
\* returns leaves the result, and with it the last line shown, as it was;
\* and the last line shown changes only when a refresh appends the output
\* it drained.
C21_HistoryAppendOnly ==
    [][/\ Len(process_list') >= Len(process_list) =>
            \A k \in Entries :
                /\ IsPrefix(process_list[k].result, process_list'[k].result)
                /\ LastLine(process_list'[k]) # LastLine(process_list[k]) =>
                      /\ process_list[k].qstdout # <<>>
                      /\ process_list'[k].result =
                             process_list[k].result \o Head(process_list[k].qstdout)
       /\ \A k \in 1 .. MaxCount :
            StartReturns(k) /\ k <= Len(process_list) =>
                /\ process_list'[k].result = process_list[k].result
                /\ LastLine(process_list'[k]) = LastLine(process_list[k])]_vars

\* C21 witness: an entry was restarted after its first incarnation's line
\* had been drained, and the new incarnation's first line has been appended
\* behind it.
C21_Witness ==
    \E k \in Entries :
        /\ process_list[k].result = <<1, 1>>
        /\ process_list[k].has
        /\ spawns >= 1

====
